---- MODULE Spec2Model ----
(***************************************************************************)
(* Calculus-Visualizer: the DerivativeVisualizer component                 *)
(* (src/app/page.tsx) and the DerivativeGraph component                    *)
(* (src/components/derivative-graph.tsx) as state machines.                *)
(*                                                                         *)
(* React: a handler runs against the values of the render it was created   *)
(* in, its setState calls are batched (the last write of a state wins) and *)
(* committed together, and the commit renders.  Every state of this model  *)
(* is therefore the state one render reads.  The effects whose             *)
(* dependencies changed in a commit run after that render (FlushEffects),  *)
(* before the next event is handled.                                       *)
(*                                                                         *)
(* Numbers: reals are fixed-point integers, InvH units per 1.0, so that    *)
(* the step h = 0.0001 of numericalDerivative is one unit.  zoomLevel is   *)
(* counted in 1/ZoomUnit (0.1 = 2, 0.25 = 5), animationProgress in         *)
(* 1/ProgressOne, animationSpeed in tenths, time in milliseconds.          *)
(***************************************************************************)
EXTENDS Integers, Sequences, FiniteSets, TLC

VARIABLES
    \* DerivativeVisualizer: useState
    activeTab, customFunction, derivedFunction, errorMessage, viewRange,
    points, derivativePoints, svgWidth,
    highlighted, highlightPoint,
    isAnimating, animationProgress, animationSpeed,
    zoomLevel, panOffset,
    \* DerivativeVisualizer: useRef
    animationRef, isDragging, lastMousePos,
    \* React and the browser
    pendingEffects,   \* the effects of the last commit that have not run yet
    frames,           \* requestAnimationFrame callbacks waiting for a frame
    nextHandle,       \* the handle the next requestAnimationFrame returns
    now,              \* timestamp of the last animation frame (ms)
    \* DerivativeGraph: props
    func, derivative, domain, tangentPoint,
    \* DerivativeGraph: useState
    data, loading, error,
    graphPending,     \* the generateData effect has not run for the props yet
    \* the value the last call of safeEval returned, with its arguments
    safeEvalResult,
    \* CalcVisualizer: useState (its activeTab, customFunction, error,
    \* domain and tangentPoint carry the prefix calc)
    calcActiveTab, calcCustomFunction, customDerivative, selectedExample,
    calcError, calcDomain, showDerivative, showTangentLine, calcTangentPoint,
    calcPending       \* the useEffect [activeTab] has not run yet

viewVars == <<activeTab, customFunction, derivedFunction, errorMessage,
              viewRange, points, derivativePoints, svgWidth>>
zoomVars == <<zoomLevel, panOffset, isDragging, lastMousePos>>
animVars == <<isAnimating, animationProgress, animationSpeed, animationRef,
              frames, nextHandle, now>>
graphVars == <<func, derivative, domain, tangentPoint, data, loading, error,
               graphPending>>
hoverVars == <<highlighted, highlightPoint>>
calcVars == <<calcActiveTab, calcCustomFunction, customDerivative,
              selectedExample, calcError, calcDomain, showDerivative,
              showTangentLine, calcTangentPoint, calcPending>>
otherVars == <<graphVars, safeEvalResult, hoverVars, calcVars>>
visualizerVars == <<viewVars, zoomVars, animVars, pendingEffects>>
vars == <<visualizerVars, otherVars>>

---------------------------------------------------------------------------
(* Bounds of the model *)

\* intervals of a sampling pass (500 in calculatePoints)
NumPoints == 2
\* |panOffset.x| (in units of 1.0) and |panOffset.y| (pixels) explored
MaxPan == 1

---------------------------------------------------------------------------
(* Arithmetic *)

\* 1 / h, h = 0.0001: the fixed-point resolution
InvH == 10000
ZoomUnit == 4 * 5

Abs(a) == IF a < 0 THEN -a ELSE a
Min(a, b) == IF a < b THEN a ELSE b
Max(a, b) == IF a > b THEN a ELSE b

\* a / b rounded toward zero (b # 0)
Quot(a, b) ==
    IF b > 0
    THEN (IF a >= 0 THEN a \div b ELSE -((-a) \div b))
    ELSE (IF a >= 0 THEN -(a \div (-b)) ELSE (-a) \div (-b))

---------------------------------------------------------------------------
(* The evaluation capability (mathjs) and safeEval *)

\* What math.evaluate(expr, {x}) gives, by kind:
\*   "num"   a finite number, |y| < 100      "big"  a finite number, |y| >= 100
\*   "nan"   NaN        "pinf"/"ninf"  +/-Infinity
\*   "undef" undefined (the empty expression)
\*   "throw" the call raises (syntax error, undefined symbol)
MathEvaluate(expr, x) ==
    CASE expr \in {"", " "} -> "undef"
      [] expr = "x +" -> "throw"
      [] expr \in {"sin(x) / x", "(x * cos(x) - sin(x)) / x^2"} ->
            IF x = 0 THEN "nan" ELSE "num"
      [] expr = "(x^2 + 1) / x" ->
            IF x = 0 THEN "pinf"
            ELSE IF Abs(x) * 100 <= InvH \/ Abs(x) >= 100 * InvH THEN "big"
            ELSE "num"
      [] expr = "1/(x-1)" ->
            IF x = InvH THEN "pinf"
            ELSE IF Abs(x - InvH) * 100 <= InvH THEN "big"
            ELSE "num"
      [] expr = "1/x" ->
            IF x = 0 THEN "pinf"
            ELSE IF Abs(x) * 100 <= InvH THEN "big"
            ELSE "num"
      [] expr = "-(1 / x ^ 2)" ->
            IF x = 0 THEN "ninf"
            ELSE IF Abs(x) * 10 <= InvH THEN "big"
            ELSE "num"
      [] expr = "x^2" ->
            IF Abs(x) >= 10 * InvH THEN "big" ELSE "num"
      [] expr = "1 / (3 * cbrt(x) ^ 2)" ->
            IF x = 0 THEN "pinf"
            ELSE IF Abs(x) * 100 <= InvH THEN "big"
            ELSE "num"
      [] OTHER -> "num"

\* Number(v) is NaN / is not finite, for the global isNaN and isFinite
IsNaN(k) == k \in {"nan", "undef"}
IsFinite(k) == k \in {"num", "big"}

safeEval(expr, x) ==
    LET r == MathEvaluate(expr, x)
    IN  IF r = "throw" THEN "nan" ELSE r

\* JavaScript arithmetic on kinds; undefined counts as NaN, and a finite
\* result is "num" (its size is not followed)
KNeg(a) ==
    CASE a = "pinf" -> "ninf"
      [] a = "ninf" -> "pinf"
      [] OTHER -> a

KAdd(a, b) ==
    CASE IsNaN(a) \/ IsNaN(b) -> "nan"
      [] a = "pinf" -> IF b = "ninf" THEN "nan" ELSE "pinf"
      [] a = "ninf" -> IF b = "pinf" THEN "nan" ELSE "ninf"
      [] b \in {"pinf", "ninf"} -> b
      [] OTHER -> "num"

\* a * x for a number x
KMulX(a, x) ==
    CASE IsNaN(a) -> "nan"
      [] a \in {"pinf", "ninf"} ->
            IF x = 0 THEN "nan" ELSE IF x > 0 THEN a ELSE KNeg(a)
      [] OTHER -> "num"

\* (a - b) / (2 * h): a finite difference over 2h is large when an
\* operand is
KSub(a, b) ==
    LET r == KAdd(a, KNeg(b))
    IN  IF r = "num" /\ (a = "big" \/ b = "big") THEN "big" ELSE r

\* (safeEval(f, x + h) - safeEval(f, x - h)) / (2 * h)
numericalDerivative(f, x) ==
    KSub(safeEval(f, x + 1), safeEval(f, x - 1))

\* a stored number: the finite value of expression e (d = 1: of its
\* numerical derivative) at x
Val(e, x, d) == [e |-> e, at |-> x, d |-> d]

\* the grid of a sampling pass: x = range[0] + i * step, i = 0..numPoints
GridX(range, n, i) == range[1] + i * Quot(range[2] - range[1], n)

calculatePoints(f, range) ==
    LET all == [j \in 1..(NumPoints + 1) |->
                    LET x == GridX(range, NumPoints, j - 1)
                    IN  [x |-> x, y |-> Val(f, x, 0),
                         k |-> safeEval(f, x)]]
        kept == SelectSeq(all, LAMBDA p :
                    ~IsNaN(p.k) /\ IsFinite(p.k) /\ p.k # "big")
    IN  [j \in 1..Len(kept) |-> [x |-> kept[j].x, y |-> kept[j].y]]

---------------------------------------------------------------------------
(* DerivativeVisualizer: tables and pure helpers *)

predefinedFunctions ==
    [trig |-> << [name |-> "sin(x)", derivative |-> "cos(x)"],
                 [name |-> "cos(x)", derivative |-> "-sin(x)"],
                 [name |-> "tan(x)", derivative |-> "sec(x)^2"] >>,
     product |-> << [name |-> "x * sin(x)", derivative |-> "sin(x) + x * cos(x)"],
                    [name |-> "x^2 * cos(x)",
                     derivative |-> "2 * x * cos(x) - x^2 * sin(x)"],
                    [name |-> "e^x * x", derivative |-> "e^x * (x + 1)"] >>,
     quotient |-> << [name |-> "sin(x) / x",
                      derivative |-> "(x * cos(x) - sin(x)) / x^2"],
                     [name |-> "x / cos(x)",
                      derivative |-> "(cos(x) - x * sin(x)) / cos(x)^2"],
                     [name |-> "(x^2 + 1) / x", derivative |-> "(x^2 - 1) / x^2"] >>,
     chain |-> << [name |-> "sin(x^2)", derivative |-> "2 * x * cos(x^2)"],
                  [name |-> "e^sin(x)", derivative |-> "cos(x) * e^sin(x)"],
                  [name |-> "ln(cos(x))", derivative |-> "-tan(x)"] >>,
     custom |-> << [name |-> "sin(x)", derivative |-> "cos(x)"] >>]

\* predefinedFunctions[tab].find((f) => f.name === name)?.derivative || ""
FindDerivative(tab, name) ==
    LET fs == predefinedFunctions[tab]
        hit == {j \in 1..Len(fs) : fs[j].name = name}
    IN  IF hit = {} THEN ""
        ELSE fs[CHOOSE j \in hit : \A m \in hit : j <= m].derivative

\* String.prototype.trim on the texts of the model
Trim(s) == IF s = " " THEN "" ELSE s

\* Number.prototype.toFixed(4)
ToFixed(k) ==
    CASE k = "nan" -> "NaN"
      [] k = "pinf" -> "Infinity"
      [] k = "ninf" -> "-Infinity"
      [] OTHER -> "f'(0)"

WarningInvalid == "Warning: Function may be invalid"

\* the values a render closes over
Cur == [activeTab |-> activeTab, customFunction |-> customFunction,
        viewRange |-> viewRange, zoomLevel |-> zoomLevel,
        panOffset |-> panOffset, svgWidth |-> svgWidth,
        isAnimating |-> isAnimating, animationSpeed |-> animationSpeed]

getEffectiveViewRange(c) ==
    LET rangeWidth == (c.viewRange[2] - c.viewRange[1]) * InvH
        zoomedWidth == Quot(rangeWidth * ZoomUnit, c.zoomLevel)
        centerX == Quot((c.viewRange[1] + c.viewRange[2]) * InvH, 2)
                   + c.panOffset.x
    IN  <<centerX - Quot(zoomedWidth, 2), centerX + Quot(zoomedWidth, 2)>>

\* calculateDerivative in the render c: the setState calls it makes.
\* clearErr: it reached setErrorMessage("").  No statement of its try block
\* raises (safeEval catches, toFixed is applied to a number), so the catch
\* branch sets nothing here.
calculateDerivative(c) ==
    IF c.activeTab = "custom" /\ Trim(c.customFunction) = ""
    THEN [derived |-> "", pts |-> <<>>, dpts |-> <<>>, clearErr |-> FALSE]
    ELSE
      LET funcPoints == calculatePoints(c.customFunction,
                                        getEffectiveViewRange(c))
          derPoints == SelectSeq(funcPoints, LAMBDA p :
                          numericalDerivative(c.customFunction, p.x) = "num")
      IN  [derived |->
              IF c.activeTab = "custom"
              THEN "Numerical derivative at x=0: "
                   \o ToFixed(numericalDerivative(c.customFunction, 0))
              ELSE FindDerivative(c.activeTab, c.customFunction),
           pts |-> funcPoints,
           dpts |-> [j \in 1..Len(derPoints) |->
                        [x |-> derPoints[j].x,
                         y |-> Val(c.customFunction, derPoints[j].x, 1)]],
           clearErr |-> TRUE]

---------------------------------------------------------------------------
(* DerivativeVisualizer: construction *)

\* graphRef.current.clientWidth, read by handleResize at mount
ClientWidth == 880
\* 2 * padding
TwoPadding == 80

ZoomMin == 10
ZoomMax == 100
WheelStep == 2
ButtonStep == 5
\* a cycle takes 5000 ms / speed
CyclePeriod == 5000
ProgressOne == CyclePeriod * 10

\* the state of the first render (the useState and useRef initialisers)
MountClosure ==
    [activeTab |-> "trig", customFunction |-> "sin(x)",
     viewRange |-> <<-10, 10>>, zoomLevel |-> ZoomUnit,
     panOffset |-> [x |-> 0, y |-> 0], svgWidth |-> 0,
     isAnimating |-> FALSE, animationSpeed |-> 10]

InitVisualizer ==
    /\ activeTab = MountClosure.activeTab
    /\ customFunction = MountClosure.customFunction
    /\ derivedFunction = ""
    /\ errorMessage = ""
    /\ viewRange = MountClosure.viewRange
    /\ points = <<>>
    /\ derivativePoints = <<>>
    /\ svgWidth = MountClosure.svgWidth
    /\ isAnimating = MountClosure.isAnimating
    /\ animationProgress = 0
    /\ animationSpeed = MountClosure.animationSpeed
    /\ zoomLevel = MountClosure.zoomLevel
    /\ panOffset = MountClosure.panOffset
    /\ animationRef = 0      \* undefined; tested only for truthiness
    /\ isDragging = FALSE
    /\ lastMousePos = [x |-> 0, y |-> 0]
    /\ pendingEffects = {"anim", "calc", "mount"}
    /\ frames = <<>>
    /\ nextHandle = 1
    /\ now = 0
    /\ safeEvalResult = [expr |-> "", x |-> 0, value |-> "none"]
    /\ highlighted = FALSE
    /\ highlightPoint = [x |-> 0, y |-> "num", dy |-> "num"]

\* DerivativeGraph mounted with the props p
InitGraph(p) ==
    /\ func = p.func
    /\ derivative = p.derivative
    /\ domain = p.domain
    /\ tangentPoint = p.tangentPoint
    /\ data = <<>>
    /\ loading = TRUE
    /\ error = ""
    /\ graphPending = TRUE

DefaultProps ==
    [func |-> "sin(x)", derivative |-> "cos(x)", domain |-> <<-10, 10>>,
     tangentPoint |-> 0]

\* CalcVisualizer: the state of its first render (the useState
\* initialisers); numbers are in units of h
InitCalc ==
    /\ calcActiveTab = "trig"
    /\ calcCustomFunction = ""
    /\ customDerivative = ""
    /\ selectedExample = 0
    /\ calcError = ""
    /\ calcDomain = <<-10 * InvH, 10 * InvH>>
    /\ showDerivative = TRUE
    /\ showTangentLine = FALSE
    /\ calcTangentPoint = 0
    /\ calcPending = TRUE

Init == InitVisualizer /\ InitGraph(DefaultProps) /\ InitCalc

\* no state update and no effect is pending
Quiescent == pendingEffects = {}

---------------------------------------------------------------------------
(* DerivativeVisualizer: expression and domain handlers *)

\* the setState calls of handleTabChange(value) in render c, batched
TabChangeUpdates(value, c) ==
    LET cd == calculateDerivative(c)
        first == predefinedFunctions[value][1]
    IN  [activeTab |-> value,
         customFunction |-> IF value # "custom" THEN first.name ELSE "",
         derivedFunction |-> cd.derived,
         errorMessage |-> IF cd.clearErr \/ value # "custom"
                          THEN "" ELSE errorMessage,
         points |-> cd.pts,
         derivativePoints |-> cd.dpts]

\* variant, not the code: zoomLevel is missing from the dependency list
CalcDepsWithoutZoom(newFunction, newTab, newZoom, rangeSet, panSet) ==
    \/ newFunction # customFunction
    \/ newTab # activeTab
    \/ rangeSet
    \/ panSet

\* the dependency list of the recalculation effect, by Object.is:
\* a setViewRange or setPanOffset call stores a new array / object
CalcDepsChanged(newFunction, newTab, newZoom, rangeSet, panSet) ==
    \/ newFunction # customFunction
    \/ newTab # activeTab
    \/ newZoom # zoomLevel
    \/ rangeSet
    \/ panSet

PendingAfter(newFunction, newTab, newZoom, rangeSet, panSet) ==
    IF CalcDepsChanged(newFunction, newTab, newZoom, rangeSet, panSet)
    THEN {"calc"} ELSE {}

HandleTabChange(value) ==
    /\ Quiescent
    /\ value # activeTab
    /\ LET u == TabChangeUpdates(value, Cur)
       IN  /\ activeTab' = u.activeTab
           /\ customFunction' = u.customFunction
           /\ derivedFunction' = u.derivedFunction
           /\ errorMessage' = u.errorMessage
           /\ points' = u.points
           /\ derivativePoints' = u.derivativePoints
           /\ pendingEffects' = PendingAfter(u.customFunction, u.activeTab,
                                             zoomLevel, FALSE, FALSE)
    /\ UNCHANGED otherVars
    /\ UNCHANGED <<viewRange, svgWidth, zoomVars, animVars>>

HandleFunctionChange(value) ==
    /\ Quiescent
    /\ activeTab # "custom"
    /\ value # customFunction
    /\ \E j \in 1..Len(predefinedFunctions[activeTab]) :
          /\ predefinedFunctions[activeTab][j].name = value
          /\ customFunction' = predefinedFunctions[activeTab][j].name
          /\ derivedFunction' = predefinedFunctions[activeTab][j].derivative
    /\ errorMessage' = ""
    /\ pendingEffects' = PendingAfter(customFunction', activeTab, zoomLevel,
                                      FALSE, FALSE)
    /\ UNCHANGED otherVars
    /\ UNCHANGED <<activeTab, viewRange, points, derivativePoints, svgWidth,
                   zoomVars, animVars>>

\* the sanity probe of handleCustomFunctionChange: safeEval(text, 1)
ProbeFails(text) ==
    LET xTest == safeEval(text, InvH)
    IN  IsNaN(xTest) \/ ~IsFinite(xTest)

HandleCustomFunctionChange(text) ==
    /\ Quiescent
    /\ activeTab = "custom"
    /\ text # customFunction
    /\ customFunction' = text
    /\ errorMessage' = IF ProbeFails(text) THEN WarningInvalid ELSE ""
    /\ pendingEffects' = PendingAfter(text, activeTab, zoomLevel, FALSE, FALSE)
    /\ UNCHANGED otherVars
    /\ UNCHANGED <<activeTab, derivedFunction, viewRange, points,
                   derivativePoints, svgWidth, zoomVars, animVars>>

\* the Calculate button: calculateDerivative of the current render
Calculate ==
    /\ Quiescent
    /\ LET cd == calculateDerivative(Cur)
       IN  /\ derivedFunction' = cd.derived
           /\ points' = cd.pts
           /\ derivativePoints' = cd.dpts
           /\ errorMessage' = IF cd.clearErr THEN "" ELSE errorMessage
    /\ UNCHANGED otherVars
    /\ UNCHANGED <<activeTab, customFunction, viewRange, svgWidth, zoomVars,
                   animVars, pendingEffects>>

\* variant, not the code: a domain change resets the animation
HandleRangeChangeResetting(values) ==
    /\ Quiescent
    /\ values # viewRange
    /\ values[1] <= values[2]
    /\ viewRange' = <<values[1], values[2]>>
    /\ animationProgress' = 0
    /\ pendingEffects' = {"calc"}
    /\ UNCHANGED otherVars
    /\ UNCHANGED <<activeTab, customFunction, derivedFunction, errorMessage,
                   points, derivativePoints, svgWidth, zoomVars, isAnimating,
                   animationSpeed, animationRef, frames, nextHandle, now>>

\* the X Range slider: two sorted thumbs, which may coincide
HandleRangeChange(values) ==
    /\ Quiescent
    /\ values # viewRange
    /\ values[1] <= values[2]
    /\ viewRange' = <<values[1], values[2]>>
    /\ pendingEffects' = PendingAfter(customFunction, activeTab, zoomLevel,
                                      TRUE, FALSE)
    /\ UNCHANGED otherVars
    /\ UNCHANGED <<activeTab, customFunction, derivedFunction, errorMessage,
                   points, derivativePoints, svgWidth, zoomVars, animVars>>

---------------------------------------------------------------------------
(* DerivativeVisualizer: zoom and pan handlers *)

WheelZoom(zoom, deltaY) ==
    LET delta == IF deltaY > 0 THEN -WheelStep ELSE WheelStep
    IN  Max(ZoomMin, Min(ZoomMax, zoom + delta))

\* variant, not the code: the zoom-in button does not clamp
ZoomInUnclamped(prev) == prev + ButtonStep

ZoomInValue(prev) == Min(ZoomMax, prev + ButtonStep)

ZoomOutValue(prev) == Max(ZoomMin, prev - ButtonStep)

SetZoom(newZoom) ==
    /\ zoomLevel' = newZoom
    /\ pendingEffects' = PendingAfter(customFunction, activeTab, newZoom,
                                      FALSE, FALSE)
    /\ UNCHANGED otherVars
    /\ UNCHANGED <<viewVars, panOffset, isDragging, lastMousePos, animVars>>

HandleWheel(deltaY) ==
    /\ Quiescent
    /\ SetZoom(WheelZoom(zoomLevel, deltaY))

HandleZoomIn ==
    /\ Quiescent
    /\ SetZoom(ZoomInValue(zoomLevel))

HandleZoomOut ==
    /\ Quiescent
    /\ SetZoom(ZoomOutValue(zoomLevel))

HandleResetView ==
    /\ Quiescent
    /\ zoomLevel' = ZoomUnit
    /\ panOffset' = [x |-> 0, y |-> 0]
    /\ pendingEffects' = PendingAfter(customFunction, activeTab, ZoomUnit,
                                      FALSE, TRUE)
    /\ UNCHANGED otherVars
    /\ UNCHANGED <<viewVars, isDragging, lastMousePos, animVars>>

\* mousedown on the graph with the left button
HandleMouseDown(pos) ==
    /\ Quiescent
    /\ isDragging' = TRUE
    /\ lastMousePos' = pos
    /\ UNCHANGED otherVars
    /\ UNCHANGED <<viewVars, zoomLevel, panOffset, animVars, pendingEffects>>

HandleMouseUp ==
    /\ Quiescent
    /\ isDragging' = FALSE
    /\ UNCHANGED otherVars
    /\ UNCHANGED <<viewVars, zoomLevel, panOffset, lastMousePos, animVars,
                   pendingEffects>>

\* dx / xScale in handlePan, in render c
PanDeltaX(dx, c) ==
    LET range == getEffectiveViewRange(c)
    IN  Quot(dx * (range[2] - range[1]), c.svgWidth - TwoPadding)

\* variant, not the code: the listener pans whether or not a drag is on
HandlePanAlways(pos) ==
    /\ Quiescent
    /\ pos # lastMousePos
    /\ panOffset' = [x |-> panOffset.x
                             - PanDeltaX(pos.x - lastMousePos.x, MountClosure),
                     y |-> panOffset.y + (pos.y - lastMousePos.y)]
    /\ Abs(panOffset'.x) <= MaxPan * InvH
    /\ Abs(panOffset'.y) <= MaxPan
    /\ lastMousePos' = pos
    /\ pendingEffects' = PendingAfter(customFunction, activeTab, zoomLevel,
                                      FALSE, TRUE)
    /\ UNCHANGED otherVars
    /\ UNCHANGED <<viewVars, zoomLevel, isDragging, animVars>>

\* the document mousemove listener.  It is registered once, by the mount
\* effect, so it is the handlePan of the first render: its range, svgWidth
\* and zoomLevel are those of MountClosure.  The refs and the functional
\* setPanOffset update read the current values.
HandlePan(pos) ==
    /\ Quiescent
    /\ isDragging
    /\ pos # lastMousePos
    /\ LET dx == pos.x - lastMousePos.x
           dy == pos.y - lastMousePos.y
       IN  panOffset' = [x |-> panOffset.x - PanDeltaX(dx, MountClosure),
                         y |-> panOffset.y + dy]
    /\ Abs(panOffset'.x) <= MaxPan * InvH
    /\ Abs(panOffset'.y) <= MaxPan
    /\ lastMousePos' = pos
    /\ pendingEffects' = PendingAfter(customFunction, activeTab, zoomLevel,
                                      FALSE, TRUE)
    /\ UNCHANGED otherVars
    /\ UNCHANGED <<viewVars, zoomLevel, isDragging, animVars>>

---------------------------------------------------------------------------
(* DerivativeVisualizer: the animation *)

\* variant, not the code: the progress is never wrapped
WrapProgressNever(newProgress) == newProgress

\* return newProgress > 1 ? 0 : newProgress
WrapProgress(newProgress) ==
    IF newProgress > ProgressOne THEN 0 ELSE newProgress

\* prev + elapsed / (5000 / animationSpeed)
AdvanceProgress(prev, elapsed, speed) ==
    WrapProgress(prev + elapsed * speed)

\* window.cancelAnimationFrame(handle)
cancelAnimationFrame(queue, handle) ==
    SelectSeq(queue, LAMBDA f : f.id # handle)

\* animate(timestamp) of the render whose values are f (the render the
\* animation effect ran in), on st = [ref, progress, queue, handle]:
\* animationRef.current, animationProgress, the callbacks requested for the
\* next frame and the next handle
animate(f, timestamp, st) ==
    LET ref == IF st.ref = 0 THEN timestamp ELSE st.ref
        elapsed == timestamp - ref
    IN  [ref |-> timestamp,
         progress |-> AdvanceProgress(st.progress, elapsed, f.animationSpeed),
         queue |-> IF f.isAnimating
                   THEN Append(st.queue, [f EXCEPT !.id = st.handle])
                   ELSE st.queue,
         handle |-> IF f.isAnimating THEN st.handle + 1 ELSE st.handle]

RECURSIVE RunCallbacks(_, _, _)
RunCallbacks(fs, timestamp, st) ==
    IF fs = <<>> THEN st
    ELSE RunCallbacks(Tail(fs), timestamp, animate(Head(fs), timestamp, st))

\* one animation frame of the browser at time t: every callback requested
\* before the frame runs, in the order requested
AnimationFrame(t) ==
    /\ Quiescent
    /\ frames # <<>>
    /\ t > now
    /\ LET st == RunCallbacks(frames, t,
                    [ref |-> animationRef, progress |-> animationProgress,
                     queue |-> <<>>, handle |-> nextHandle])
       IN  /\ animationRef' = st.ref
           /\ animationProgress' = st.progress
           /\ frames' = st.queue
           /\ nextHandle' = st.handle
    /\ now' = t
    /\ UNCHANGED otherVars
    /\ UNCHANGED <<viewVars, zoomVars, isAnimating, animationSpeed,
                   pendingEffects>>

\* the Animate / Pause button: setIsAnimating(!isAnimating)
ToggleAnimation ==
    /\ Quiescent
    /\ isAnimating' = ~isAnimating
    /\ pendingEffects' = {"anim"}
    /\ UNCHANGED otherVars
    /\ UNCHANGED <<viewVars, zoomVars, animationProgress, animationSpeed,
                   animationRef, frames, nextHandle, now>>

\* the Speed slider
SetAnimationSpeed(value) ==
    /\ Quiescent
    /\ value # animationSpeed
    /\ animationSpeed' = value
    /\ UNCHANGED otherVars
    /\ UNCHANGED <<viewVars, zoomVars, isAnimating, animationProgress,
                   animationRef, frames, nextHandle, now, pendingEffects>>

---------------------------------------------------------------------------
(* DerivativeVisualizer: effects *)

\* useEffect [isAnimating]: the cleanup of the previous run, then the body.
\* Gives <<animationRef.current, frames, nextHandle>>.
AnimationEffect(c) ==
    LET cleaned == IF animationRef # 0
                   THEN cancelAnimationFrame(frames, animationRef)
                   ELSE frames
    IN  IF c.isAnimating
        THEN <<0,
               Append(cleaned, [id |-> nextHandle,
                                isAnimating |-> c.isAnimating,
                                animationSpeed |-> c.animationSpeed]),
               nextHandle + 1>>
        ELSE <<animationRef, cleaned, nextHandle>>

\* The effects of the last commit, in the order the component declares
\* them: [isAnimating], then [customFunction, viewRange, activeTab,
\* zoomLevel, panOffset], then the mount effect [] (handleTabChange("trig"),
\* handleResize, the document listeners).  All run in the render Cur.
FlushEffects ==
    /\ ~Quiescent
    /\ LET c == Cur
           cd == calculateDerivative(c)
           calc == "calc" \in pendingEffects
           mount == "mount" \in pendingEffects
           u == TabChangeUpdates("trig", c)
           ae == AnimationEffect(c)
       IN  /\ IF "anim" \in pendingEffects
              THEN /\ animationRef' = ae[1]
                   /\ frames' = ae[2]
                   /\ nextHandle' = ae[3]
              ELSE UNCHANGED <<animationRef, frames, nextHandle>>
           /\ activeTab' = IF mount THEN u.activeTab ELSE activeTab
           /\ customFunction' = IF mount THEN u.customFunction
                                ELSE customFunction
           /\ derivedFunction' = IF mount THEN u.derivedFunction
                                 ELSE IF calc THEN cd.derived
                                 ELSE derivedFunction
           /\ errorMessage' = IF mount THEN u.errorMessage
                              ELSE IF calc /\ cd.clearErr THEN ""
                              ELSE errorMessage
           /\ points' = IF mount THEN u.points
                        ELSE IF calc THEN cd.pts ELSE points
           /\ derivativePoints' = IF mount THEN u.derivativePoints
                                  ELSE IF calc THEN cd.dpts
                                  ELSE derivativePoints
           /\ svgWidth' = IF mount THEN ClientWidth ELSE svgWidth
           /\ pendingEffects' = PendingAfter(customFunction', activeTab',
                                             zoomLevel, FALSE, FALSE)
    /\ UNCHANGED otherVars
    /\ UNCHANGED <<viewRange, zoomVars, isAnimating, animationProgress,
                   animationSpeed, now>>

---------------------------------------------------------------------------
(* DerivativeVisualizer: the paths of a render *)

\* const padding = 40
Padding == 40

\* a JavaScript number that may be NaN
NaN == [nan |-> TRUE, v |-> 0]
Number(v) == [nan |-> FALSE, v |-> v]

\* the x half of mapToSVG in render c, to the pixel: with a range of width
\* 0, xScale is +/-Infinity and (x - range[0]) * xScale is 0 * Infinity
mapToSVG(x, c) ==
    LET range == getEffectiveViewRange(c)
        graphWidth == c.svgWidth - TwoPadding
    IN  IF range[2] = range[1]
        THEN NaN
        ELSE Number(Padding + Quot((x - range[1]) * graphWidth,
                                   range[2] - range[1]))

\* the pointer conversion of handleMouseMove in render c:
\* x = range[0] + (mouseX - padding) / xScale
PointerToX(mouseX, c) ==
    LET range == getEffectiveViewRange(c)
        graphWidth == c.svgWidth - TwoPadding
    IN  IF mouseX.nan \/ graphWidth = 0
        THEN NaN
        ELSE IF range[2] = range[1]
        THEN Number(range[1])
        ELSE Number(range[1] + Quot((mouseX.v - Padding)
                                      * (range[2] - range[1]), graphWidth))

\* the width of the effective range one pixel covers, rounded up
PixelWorth(c) ==
    LET range == getEffectiveViewRange(c)
        graphWidth == c.svgWidth - TwoPadding
    IN  IF graphWidth = 0 THEN 0
        ELSE Abs(Quot(range[2] - range[1], graphWidth)) + 1

\* onMouseMove of the graph (hover) at pixel column mouseX: ignored while
\* dragging or without points; inside the range it highlights (x, f(x))
\* with the numerical derivative there, else it sets nothing
HandleMouseMove(mouseX) ==
    /\ Quiescent
    /\ LET range == getEffectiveViewRange(Cur)
           x == PointerToX(Number(mouseX), Cur)
       IN  IF /\ Len(points) # 0
              /\ ~isDragging
              /\ ~x.nan
              /\ x.v >= range[1]
              /\ x.v <= range[2]
           THEN /\ highlighted' = TRUE
                /\ highlightPoint' =
                      [x |-> x.v,
                       y |-> safeEval(customFunction, x.v),
                       dy |-> numericalDerivative(customFunction, x.v)]
           ELSE UNCHANGED hoverVars
    /\ UNCHANGED <<visualizerVars, graphVars, safeEvalResult, calcVars>>

\* onMouseLeave of the graph
HandleMouseLeave ==
    /\ Quiescent
    /\ highlighted' = FALSE
    /\ UNCHANGED <<highlightPoint, visualizerVars, graphVars, safeEvalResult,
                   calcVars>>

\* Math.floor(points.length * animationProgress)
EndIndex(len, progress) == (len * progress) \div ProgressOne

\* the 0-based indices of the point array createPath passes to mapToSVG
PathIndices(len, animated, progress) ==
    IF len = 0 THEN {}
    ELSE IF animated
         THEN IF EndIndex(len, progress) <= 0 THEN {}
              ELSE 0..EndIndex(len, progress)
         ELSE 0..(len - 1)

\* createPath: the samples the path is drawn through, in order.  Reading
\* an index past the end gives undefined, and mapToSVG(undefined) raises a
\* TypeError on point.x: raised, and no path is returned.
createPath(pts, animated, progress) ==
    LET idx == PathIndices(Len(pts), animated, progress)
    IN  IF \E i \in idx : i >= Len(pts)
        THEN [raised |-> TRUE, path |-> <<>>]
        ELSE [raised |-> FALSE, path |-> SubSeq(pts, 1, Cardinality(idx))]

\* the function path of the current render
FunctionPath == createPath(points, isAnimating, animationProgress)
\* the derivative path of the current render
DerivativePath == createPath(derivativePoints, isAnimating, animationProgress)

---------------------------------------------------------------------------
(* DerivativeGraph *)

GraphError == "Error generating graph data"

\* a number of a row: its kind, and the expression and x it is the value of
Num(k, e, x) == [k |-> k, e |-> e, at |-> x]

\* !v: v is null, undefined, NaN or 0 ("null": no derivative was evaluated)
Falsy(k) == k \in {"null", "undef", "nan"}

\* dy of a stored row: dy || 0, dy the value of the derivative expression
\* when one is given and null when none is
GraphDy(p, x) ==
    LET dy == IF p.derivative # "" THEN MathEvaluate(p.derivative, x)
              ELSE "null"
    IN  IF Falsy(dy) THEN Num("num", "0", x)
        ELSE Num(dy, p.derivative, x)

\* variant, not the code: without a derivative expression dy is the
\* central difference of the function
GraphRowNumerical(p, x, tangentSlope, tangentIntercept) ==
    LET y == MathEvaluate(p.func, x)
        dy == IF p.derivative # "" THEN MathEvaluate(p.derivative, x)
              ELSE numericalDerivative(p.func, x)
    IN  IF y = "throw" \/ dy = "throw" THEN <<>>
        ELSE IF IsFinite(y) /\ (Falsy(dy) \/ IsFinite(dy))
        THEN << [x |-> x,
                 y |-> Num(y, p.func, x),
                 dy |-> IF p.derivative # "" THEN GraphDy(p, x)
                        ELSE Num(dy, p.func, x),
                 tangent |-> Num(KAdd(KMulX(tangentSlope, x),
                                      tangentIntercept), "tangent", x)] >>
        ELSE <<>>

\* one row of the sampling loop: <<>> when the point is skipped (an
\* evaluation raises, or the validity test fails), else <<row>>
GraphRow(p, x, tangentSlope, tangentIntercept) ==
    LET y == MathEvaluate(p.func, x)
        dy == IF p.derivative # "" THEN MathEvaluate(p.derivative, x)
              ELSE "null"
        tangent == KAdd(KMulX(tangentSlope, x), tangentIntercept)
    IN  IF y = "throw" \/ dy = "throw" THEN <<>>
        ELSE IF IsFinite(y) /\ (Falsy(dy) \/ IsFinite(dy))
        THEN << [x |-> x,
                 y |-> Num(y, p.func, x),
                 dy |-> IF Falsy(dy) THEN Num("num", "0", x)
                        ELSE Num(dy, p.derivative, x),
                 tangent |-> Num(tangent, "tangent", x)] >>
        ELSE <<>>

RECURSIVE GraphRows(_, _, _, _)
GraphRows(p, i, tangentSlope, tangentIntercept) ==
    IF i > NumPoints THEN <<>>
    ELSE GraphRow(p, GridX(<<p.domain[1] * InvH, p.domain[2] * InvH>>,
                           NumPoints, i),
                  tangentSlope, tangentIntercept)
         \o GraphRows(p, i + 1, tangentSlope, tangentIntercept)

\* the grid of a sampling pass of generateData: x = min + i * step
GraphGrid(p) ==
    { GridX(<<p.domain[1] * InvH, p.domain[2] * InvH>>, NumPoints, i) :
        i \in 0..NumPoints }

\* the pass for the props p fails: one of the two evaluations at the
\* tangent point, outside the inner try, raises into the outer catch
GraphPassFails(p) ==
    /\ p.func # ""
    /\ \/ MathEvaluate(p.derivative, p.tangentPoint) = "throw"
       \/ MathEvaluate(p.func, p.tangentPoint) = "throw"

\* variant, not the code: a failed pass empties data
generateDataClearing(p, st) ==
    IF p.func = ""
    THEN [data |-> <<>>, loading |-> FALSE, error |-> st.error]
    ELSE IF GraphPassFails(p)
    THEN [data |-> <<>>, loading |-> FALSE, error |-> GraphError]
    ELSE [data |-> GraphRows(p, 0,
                      MathEvaluate(p.derivative, p.tangentPoint),
                      KAdd(MathEvaluate(p.func, p.tangentPoint),
                           KNeg(KMulX(MathEvaluate(p.derivative,
                                                   p.tangentPoint),
                                      p.tangentPoint)))),
          loading |-> FALSE, error |-> ""]

\* generateData for the props p: the state it leaves, from the state st
\* = [data, loading, error]
generateData(p, st) ==
    IF p.func = ""
    THEN [data |-> <<>>, loading |-> FALSE, error |-> st.error]
    ELSE
      LET tangentSlope == MathEvaluate(p.derivative, p.tangentPoint)
          atPoint == MathEvaluate(p.func, p.tangentPoint)
          tangentIntercept ==
              KAdd(atPoint, KNeg(KMulX(tangentSlope, p.tangentPoint)))
      IN  IF tangentSlope = "throw" \/ atPoint = "throw"
          THEN [data |-> st.data, loading |-> FALSE, error |-> GraphError]
          ELSE [data |-> GraphRows(p, 0, tangentSlope, tangentIntercept),
                loading |-> FALSE, error |-> ""]

Props == [func |-> func, derivative |-> derivative, domain |-> domain,
          tangentPoint |-> tangentPoint]

\* useEffect [generateData]: runs after the render that changed a prop
GenerateData ==
    /\ graphPending
    /\ LET r == generateData(Props, [data |-> data, loading |-> loading,
                                     error |-> error])
       IN  /\ data' = r.data
           /\ loading' = r.loading
           /\ error' = r.error
    /\ graphPending' = FALSE
    /\ UNCHANGED <<func, derivative, domain, tangentPoint, safeEvalResult,
                   hoverVars, visualizerVars, calcVars>>

\* the parent renders DerivativeGraph with new props
NewProps(p) ==
    /\ ~graphPending
    /\ p # Props
    /\ func' = p.func
    /\ derivative' = p.derivative
    /\ domain' = p.domain
    /\ tangentPoint' = p.tangentPoint
    /\ graphPending' = TRUE
    /\ UNCHANGED <<data, loading, error, safeEvalResult, hoverVars,
                   visualizerVars, calcVars>>

---------------------------------------------------------------------------
(* The pure functions of DerivativeVisualizer, applied to drawn inputs *)

CallSafeEval(expr, x) ==
    /\ safeEvalResult' = [expr |-> expr, x |-> x, value |-> safeEval(expr, x)]
    /\ UNCHANGED <<visualizerVars, graphVars, hoverVars, calcVars>>

\* calculateDerivative applied to a view: a tab with one of its functions
\* (or the custom tab with a text), over a base range
CallCalculateDerivative(tab, name, range) ==
    LET cd == calculateDerivative([Cur EXCEPT !.activeTab = tab,
                                              !.customFunction = name,
                                              !.viewRange = range])
    IN  /\ activeTab' = tab
        /\ customFunction' = name
        /\ viewRange' = range
        /\ derivedFunction' = cd.derived
        /\ points' = cd.pts
        /\ derivativePoints' = cd.dpts
        /\ UNCHANGED <<errorMessage, svgWidth, zoomVars, animVars,
                       pendingEffects, graphVars, safeEvalResult,
                       hoverVars, calcVars>>

CallCalculatePoints(f, range) ==
    /\ points' = calculatePoints(f, range)
    /\ UNCHANGED <<activeTab, customFunction, derivedFunction, errorMessage,
                   viewRange, derivativePoints, svgWidth, zoomVars, animVars,
                   pendingEffects, graphVars, safeEvalResult, hoverVars,
                   calcVars>>

---------------------------------------------------------------------------
(* CalcVisualizer *)

\* 2 * Math.PI, in units of h
TwoPi == 62832
\* [-10, 10], the domain of an example without a defaultDomain
FallbackDomain == <<-10 * InvH, 10 * InvH>>

\* defaultDomain <<>>: the example has none
examples ==
    [trig |-> << [name |-> "Sine", f |-> "sin(x)", df |-> "cos(x)",
                  defaultDomain |-> <<-TwoPi, TwoPi>>],
                 [name |-> "Cosine", f |-> "cos(x)", df |-> "-sin(x)",
                  defaultDomain |-> <<-TwoPi, TwoPi>>],
                 [name |-> "Tangent", f |-> "tan(x)", df |-> "sec(x)^2",
                  defaultDomain |-> <<-15000, 15000>>] >>,
     product |-> << [name |-> "Product Rule", f |-> "x * sin(x)",
                     df |-> "x * cos(x) + sin(x)", defaultDomain |-> <<>>],
                    [name |-> "Polynomial x Trig", f |-> "x^2 * cos(x)",
                     df |-> "2 * x * cos(x) - x^2 * sin(x)",
                     defaultDomain |-> <<>>] >>,
     quotient |-> << [name |-> "Quotient Rule", f |-> "sin(x) / x",
                      df |-> "(x * cos(x) - sin(x)) / x^2",
                      defaultDomain |-> <<>>],
                     [name |-> "Rational Function", f |-> "x / (x^2 + 1)",
                      df |-> "(x^2 + 1 - x * 2 * x) / (x^2 + 1)^2",
                      defaultDomain |-> <<>>] >>,
     chain |-> << [name |-> "Chain Rule", f |-> "sin(x^2)",
                   df |-> "2 * x * cos(x^2)", defaultDomain |-> <<>>],
                  [name |-> "Nested Functions", f |-> "sqrt(1 + x^2)",
                   df |-> "x / sqrt(1 + x^2)", defaultDomain |-> <<>>] >>]

\* ex.defaultDomain || [-10, 10]
DefaultDomainOr(ex) ==
    IF ex.defaultDomain = <<>> THEN FallbackDomain ELSE ex.defaultDomain

\* (d[0] + d[1]) / 2
Midpoint(d) == Quot(d[1] + d[2], 2)

\* simplify(derivative(parse(func), "x")).toString() of mathjs on the
\* texts of the model; "throw": parse raises
SymbolicDerivative(f) ==
    CASE f = "x^2" -> "2 * x"
      [] f = "x^3" -> "3 * x ^ 2"
      [] OTHER -> "throw"

InvalidFunction == "Invalid function. Please check your syntax."

\* calculateDerivative(func) of CalcVisualizer: the customDerivative and
\* error it leaves, from the error err of the render
calcCalculateDerivative(f, err) ==
    IF Trim(f) = ""
    THEN [customDerivative |-> "", error |-> err]
    ELSE IF SymbolicDerivative(f) = "throw"
    THEN [customDerivative |-> "", error |-> InvalidFunction]
    ELSE [customDerivative |-> SymbolicDerivative(f), error |-> ""]

\* the values derived in a render
currentExamples == examples[calcActiveTab]
selectedExampleIndex == Min(selectedExample, Len(currentExamples) - 1)
currentExample == currentExamples[selectedExampleIndex + 1]
\* the func and derivative props of DerivativeGraph
displayFunction ==
    IF calcCustomFunction # "" THEN calcCustomFunction ELSE currentExample.f
displayDerivative ==
    IF calcCustomFunction # "" THEN customDerivative ELSE currentExample.df

\* the useEffect [activeTab] has run
CalcQuiescent == ~calcPending

\* Tabs onValueChange
SetActiveTab(value) ==
    /\ CalcQuiescent
    /\ value # calcActiveTab
    /\ calcActiveTab' = value
    /\ calcPending' = TRUE
    /\ UNCHANGED <<calcCustomFunction, customDerivative, selectedExample,
                   calcError, calcDomain, showDerivative, showTangentLine,
                   calcTangentPoint>>
    /\ UNCHANGED <<visualizerVars, graphVars, safeEvalResult, hoverVars>>

\* useEffect [activeTab]: after the first render and after a render that
\* changed activeTab
ActiveTabEffect ==
    /\ calcPending
    /\ selectedExample' = 0
    /\ calcCustomFunction' = ""
    /\ customDerivative' = ""
    /\ calcError' = ""
    /\ LET defaultDomain == DefaultDomainOr(examples[calcActiveTab][1])
       IN  /\ calcDomain' = defaultDomain
           /\ calcTangentPoint' = Midpoint(defaultDomain)
    /\ calcPending' = FALSE
    /\ UNCHANGED <<calcActiveTab, showDerivative, showTangentLine>>
    /\ UNCHANGED <<visualizerVars, graphVars, safeEvalResult, hoverVars>>

\* (ex.defaultDomain?.[0] || -10 + ex.defaultDomain?.[1] || 10) / 2:
\* + binds tighter than ||, so this is (a || (-10 + b) || 10) / 2, and
\* undefined, NaN (-10 + undefined) and 0 are falsy
ExampleTangentPoint(ex) ==
    LET has == ex.defaultDomain # <<>>
    IN  IF has /\ ex.defaultDomain[1] # 0
        THEN Quot(ex.defaultDomain[1], 2)
        ELSE IF has /\ -10 * InvH + ex.defaultDomain[2] # 0
        THEN Quot(-10 * InvH + ex.defaultDomain[2], 2)
        ELSE Quot(10 * InvH, 2)

\* onClick of the button of the example idx of the active tab
SelectExample(idx) ==
    /\ CalcQuiescent
    /\ idx \in 0..(Len(examples[calcActiveTab]) - 1)
    /\ LET ex == examples[calcActiveTab][idx + 1]
       IN  /\ selectedExample' = idx
           /\ calcCustomFunction' = ""
           /\ customDerivative' = ""
           /\ calcError' = ""
           /\ calcDomain' = DefaultDomainOr(ex)
           /\ calcTangentPoint' = ExampleTangentPoint(ex)
    /\ UNCHANGED <<calcActiveTab, showDerivative, showTangentLine,
                   calcPending>>
    /\ UNCHANGED <<visualizerVars, graphVars, safeEvalResult, hoverVars>>

\* onChange of the custom function Input
SetCustomFunction(text) ==
    /\ CalcQuiescent
    /\ calcCustomFunction' = text
    /\ UNCHANGED <<calcActiveTab, customDerivative, selectedExample,
                   calcError, calcDomain, showDerivative, showTangentLine,
                   calcTangentPoint, calcPending>>
    /\ UNCHANGED <<visualizerVars, graphVars, safeEvalResult, hoverVars>>

\* the Calculate button: calculateDerivative(customFunction)
ClickCalculate ==
    /\ CalcQuiescent
    /\ LET r == calcCalculateDerivative(calcCustomFunction, calcError)
       IN  /\ customDerivative' = r.customDerivative
           /\ calcError' = r.error
    /\ UNCHANGED <<calcActiveTab, calcCustomFunction, selectedExample,
                   calcDomain, showDerivative, showTangentLine,
                   calcTangentPoint, calcPending>>
    /\ UNCHANGED <<visualizerVars, graphVars, safeEvalResult, hoverVars>>

\* onValueChange of the domain Slider (two sorted thumbs in [-20, 20])
HandleDomainChange(value) ==
    /\ CalcQuiescent
    /\ calcDomain' = <<value[1], value[2]>>
    /\ UNCHANGED <<calcActiveTab, calcCustomFunction, customDerivative,
                   selectedExample, calcError, showDerivative,
                   showTangentLine, calcTangentPoint, calcPending>>
    /\ UNCHANGED <<visualizerVars, graphVars, safeEvalResult, hoverVars>>

\* the Reset button of the domain
ResetDomain ==
    /\ CalcQuiescent
    /\ calcDomain' = DefaultDomainOr(currentExample)
    /\ UNCHANGED <<calcActiveTab, calcCustomFunction, customDerivative,
                   selectedExample, calcError, showDerivative,
                   showTangentLine, calcTangentPoint, calcPending>>
    /\ UNCHANGED <<visualizerVars, graphVars, safeEvalResult, hoverVars>>

ToggleDerivative ==
    /\ CalcQuiescent
    /\ showDerivative' = ~showDerivative
    /\ UNCHANGED <<calcActiveTab, calcCustomFunction, customDerivative,
                   selectedExample, calcError, calcDomain, showTangentLine,
                   calcTangentPoint, calcPending>>
    /\ UNCHANGED <<visualizerVars, graphVars, safeEvalResult, hoverVars>>

ToggleTangentLine ==
    /\ CalcQuiescent
    /\ showTangentLine' = ~showTangentLine
    /\ UNCHANGED <<calcActiveTab, calcCustomFunction, customDerivative,
                   selectedExample, calcError, calcDomain, showDerivative,
                   calcTangentPoint, calcPending>>
    /\ UNCHANGED <<visualizerVars, graphVars, safeEvalResult, hoverVars>>

\* a step of the tangent point Slider, 0.01
TangentStep == 100

\* onValueChange of the tangent point Slider, rendered while
\* showTangentLine: its thumb is at min + k * step, min = domain[0], and
\* at most max = domain[1]
HandleTangentPointChange(k) ==
    /\ CalcQuiescent
    /\ showTangentLine
    /\ calcDomain[1] + k * TangentStep <= calcDomain[2]
    /\ calcTangentPoint' = calcDomain[1] + k * TangentStep
    /\ UNCHANGED <<calcActiveTab, calcCustomFunction, customDerivative,
                   selectedExample, calcError, calcDomain, showDerivative,
                   showTangentLine, calcPending>>
    /\ UNCHANGED <<visualizerVars, graphVars, safeEvalResult, hoverVars>>

---------------------------------------------------------------------------
(* Inputs and specifications *)

\* the X Range slider keeps its two thumbs sorted; they may coincide
WheelDeltas == {-100, 100}
MousePositions == {[x |-> 0, y |-> 0], [x |-> 4, y |-> 1]}
AnimationSpeeds == {10, 20}
FrameGaps == {1000, 2500}
\* the last frame timestamp explored
MaxTime == 6000
\* animation callbacks waiting at once
MaxChains == 2

ExpressionEvent(tabs, names, texts, ranges) ==
    \/ \E tab \in tabs : HandleTabChange(tab)
    \/ \E name \in names : HandleFunctionChange(name)
    \/ \E text \in texts : HandleCustomFunctionChange(text)
    \/ \E values \in ranges : HandleRangeChange(values)

\* the view: expression, domain, zoom and pan
ViewTabs == {"trig", "custom"}
ViewNames == {"sin(x)", "cos(x)", "tan(x)"}
ViewTexts == {"", "x^2", "1/(x-1)"}
ViewRanges == {<<-10, 10>>, <<0, 10>>, <<10, 10>>}

NextView ==
    \/ FlushEffects
    \/ ExpressionEvent(ViewTabs, ViewNames, ViewTexts, ViewRanges)
    \/ Calculate
    \/ \E d \in WheelDeltas : HandleWheel(d)
    \/ HandleZoomIn
    \/ HandleZoomOut
    \/ HandleResetView
    \/ \E pos \in MousePositions : HandleMouseDown(pos)
    \/ HandleMouseUp
    \/ \E pos \in MousePositions : HandlePan(pos)

SpecView == Init /\ [][NextView]_vars

\* the animation, with the expression and domain handlers
AnimTabs == {"trig", "custom"}
AnimNames == {"sin(x)", "cos(x)"}
AnimTexts == {"x^2"}
AnimRanges == {<<-10, 10>>, <<0, 10>>}

\* a click on Animate / Pause; starts are bounded by MaxChains
ClickAnimate ==
    /\ isAnimating \/ Len(frames) < MaxChains
    /\ ToggleAnimation

\* the next frame of the browser
NextFrame ==
    \E gap \in FrameGaps :
        /\ now + gap <= MaxTime
        /\ AnimationFrame(now + gap)

NextAnim ==
    \/ FlushEffects
    \/ ExpressionEvent(AnimTabs, AnimNames, AnimTexts, AnimRanges)
    \/ ClickAnimate
    \/ \E v \in AnimationSpeeds : SetAnimationSpeed(v)
    \/ NextFrame

SpecAnim == Init /\ [][NextAnim]_vars

\* the pointer: zoom, drag and hover, with the other kinds of event
PointerTabs == {"custom"}
PointerNames == {"cos(x)"}
PointerTexts == {"x^2"}
PointerRanges == {<<0, 10>>}
PointerColumns == {Padding + 400}
PointerGaps == {3000}
\* the zoom levels explored: 1, and one wheel or button step from it
PointerZooms == {ZoomUnit - ButtonStep, ZoomUnit, ZoomUnit + WheelStep,
                 ZoomUnit + ButtonStep}

ZoomEvent ==
    \/ \E d \in WheelDeltas : HandleWheel(d)
    \/ HandleZoomIn
    \/ HandleZoomOut
    \/ HandleResetView

DragEvent == isDragging /\ \E pos \in MousePositions : HandlePan(pos)

NextPointer ==
    \/ FlushEffects
    \/ ExpressionEvent(PointerTabs, PointerNames, PointerTexts, PointerRanges)
    \/ ZoomEvent /\ zoomLevel' \in PointerZooms
    \/ \E pos \in MousePositions : HandleMouseDown(pos)
    \/ HandleMouseUp
    \/ \E pos \in MousePositions : HandlePan(pos)
    \/ \E mouseX \in PointerColumns : HandleMouseMove(mouseX)
    \/ HandleMouseLeave
    \/ (isAnimating \/ frames = <<>>) /\ ToggleAnimation
    \/ \E gap \in PointerGaps :
          now + gap <= MaxTime /\ AnimationFrame(now + gap)

SpecPointer == Init /\ [][NextPointer]_vars

\* evaluation and sampling
EvalExprs == {"", "x +", "sin(x)", "1/(x-1)", "x^2"}
EvalXs == {0, InvH, 10 * InvH}
EvalRanges == {<<-10 * InvH, 10 * InvH>>, <<0, 2 * InvH>>}
EvalViews == {<<"trig", "cos(x)">>, <<"custom", "x^2">>}
GraphFunctions ==
    { <<"sin(x)", "cos(x)">>,
      <<"sin(x) / x", "(x * cos(x) - sin(x)) / x^2">>,
      <<"1/x", "-(1 / x ^ 2)">>,
      <<"cbrt(x)", "1 / (3 * cbrt(x) ^ 2)">>,
      <<"1/x", "">>,
      <<"x +", "">>,
      <<"", "">> }
GraphDomains == {<<-10, 10>>}
GraphTangentPoints == {0, 5 * InvH}
GraphProps ==
    { [func |-> fd[1], derivative |-> fd[2], domain |-> d, tangentPoint |-> t] :
        fd \in GraphFunctions, d \in GraphDomains, t \in GraphTangentPoints }

InitEval == InitVisualizer /\ InitCalc /\ \E p \in GraphProps : InitGraph(p)

NextEval ==
    \/ GenerateData
    \/ \E p \in GraphProps : NewProps(p)
    \/ \E expr \in EvalExprs, x \in EvalXs : CallSafeEval(expr, x)
    \/ \E f \in EvalExprs, range \in EvalRanges : CallCalculatePoints(f, range)
    \/ \E v \in EvalViews :
          CallCalculateDerivative(v[1], v[2], <<-10, 10>>)

SpecEval == InitEval /\ [][NextEval]_vars

\* CalcVisualizer
CalcTabs == {"trig", "product", "quotient", "chain"}
CalcTexts == {"", "x^2", "x^3", "x +"}
CalcDomains == {<<-10 * InvH, 10 * InvH>>, <<InvH, 10 * InvH>>}
\* thumb positions of the tangent point Slider, in steps from its min
CalcTangentSteps == {0, 500, 1000}

NextCalc ==
    \/ ActiveTabEffect
    \/ \E value \in CalcTabs : SetActiveTab(value)
    \/ \E idx \in 0..2 : SelectExample(idx)
    \/ \E text \in CalcTexts : SetCustomFunction(text)
    \/ ClickCalculate
    \/ \E value \in CalcDomains : HandleDomainChange(value)
    \/ ResetDomain
    \/ ToggleDerivative
    \/ ToggleTangentLine
    \/ \E k \in CalcTangentSteps : HandleTangentPointChange(k)

SpecCalc == Init /\ [][NextCalc]_vars

---------------------------------------------------------------------------
(* Properties *)

\* the sample of the rendered expression over the rendered effective range
FreshPoints == calculatePoints(customFunction, getEffectiveViewRange(Cur))
FreshDerivativePoints == calculateDerivative(Cur).dpts

\* a step that changes the expression or the base domain
ExpressionOrDomainChanges ==
    \/ customFunction' # customFunction
    \/ activeTab' # activeTab
    \/ viewRange' # viewRange

\* a step that changes what the points are sampled from
SampleInputChanges ==
    \/ ExpressionOrDomainChanges
    \/ zoomLevel' # zoomLevel
    \/ panOffset' # panOffset

\* C1: once the animation is stopped, animationProgress is not modified
\* until the animation is started again: a step from a stopped state to a
\* stopped state leaves animationProgress as it was.
C1_StoppedProgressFrozen ==
    [][(~isAnimating /\ ~isAnimating')
          => animationProgress' = animationProgress]_vars

C3_ProgressInUnitInterval ==
    /\ [](animationProgress \in 0..ProgressOne)
    /\ [][animationProgress' < animationProgress
             => animationProgress' \in 0..(ProgressOne - 1)]_vars

\* C3 witness: the animation has reached progress exactly 1 and more than
\* one callback is waiting for the next frame
C3_Witness ==
    /\ animationProgress = ProgressOne
    /\ Len(frames) > 1

\* C4: zoomLevel is within [0.5, 5] in every reachable state.
C4_ZoomWithinBounds == zoomLevel \in ZoomMin..ZoomMax

\* C4 witness: the zoom sits at its upper bound with the view panned
C4_Witness ==
    /\ zoomLevel = ZoomMax
    /\ panOffset.x # 0
    /\ Quiescent

\* C5: the effective view range every render samples and transforms with
\* satisfies lo < hi.
C5_EffectiveRangeOrdered ==
    LET range == getEffectiveViewRange(Cur)
    IN  range[1] < range[2]

\* C6: after a change of expression, viewRange, zoomLevel or panOffset, the
\* render that follows reads points and derivativePoints already
\* recomputed for the new state.
C6_NoStaleRender ==
    [][SampleInputChanges
          => /\ points' = FreshPoints'
             /\ derivativePoints' = FreshDerivativePoints']_vars

\* C7: whenever the component is quiescent, points is the sample of the
\* current customFunction over the current effective view range (and
\* derivativePoints the derivative sample of it), and a step that changes
\* zoomLevel or panOffset (a zoom or pan handler) writes neither.
C7_QuiescentPointsFresh ==
    /\ [](Quiescent => /\ points = FreshPoints
                       /\ derivativePoints = FreshDerivativePoints)
    /\ [][(zoomLevel' # zoomLevel \/ panOffset' # panOffset)
             => /\ points' = points
                /\ derivativePoints' = derivativePoints]_vars

\* C7 witness: quiescent after zooming, panning and a domain change, with
\* a sample that lost a grid point
C7_Witness ==
    /\ Quiescent
    /\ zoomLevel # ZoomUnit
    /\ panOffset.x # 0
    /\ viewRange # MountClosure.viewRange
    /\ customFunction = "x^2"
    /\ Len(points) \in 1..NumPoints

\* C8: the warning set for a custom function text that fails the sanity
\* probe is still there when the effects of that edit have settled: the
\* settling step does not clear it.
C8_WarningSurvivesSettling ==
    [][(/\ ~Quiescent
        /\ Quiescent'
        /\ activeTab = "custom"
        /\ ProbeFails(customFunction)
        /\ errorMessage = WarningInvalid)
          => errorMessage' = WarningInvalid]_vars

\* C9: evaluation through the adapter returns the invalid sentinel or a
\* finite real: no call of safeEval returns +Infinity or -Infinity.
C9_SafeEvalNeverInfinite ==
    safeEvalResult.value \notin {"pinf", "ninf"}

\* C10: every numeric field of every row a sampling pass stored is finite:
\* y of every point of calculatePoints, and y, dy and tangent of every row
\* of generateData.
C10_StoredRowsFinite ==
    /\ \A j \in DOMAIN points :
          IsFinite(safeEval(points[j].y.e, points[j].y.at))
    /\ \A j \in DOMAIN data :
          /\ IsFinite(data[j].y.k)
          /\ IsFinite(data[j].dy.k)
          /\ IsFinite(data[j].tangent.k)

\* a sampling pass of generateData has completed for the current props
GraphPassCompleted == ~graphPending /\ func # "" /\ error = ""

\* C11: after a sampling pass, every grid point whose function value is
\* finite has a row, whatever the derivative gives at that x.
C11_FiniteYRetained ==
    GraphPassCompleted
      => \A x \in GraphGrid(Props) :
            IsFinite(MathEvaluate(func, x))
              => \E j \in DOMAIN data : data[j].x = x

\* a sampling pass of generateData has run for the current props
GraphPassRan == ~graphPending /\ func # ""

\* C12: when f(x0) is finite, the tangent is a finite line and the pass
\* completes, also when the derivative value at x0 is invalid (the slope
\* is then taken as 0): no error is reported and the tangent of every row
\* is finite.
C12_TangentFiniteLine ==
    (GraphPassRan /\ IsFinite(MathEvaluate(func, tangentPoint)))
      => /\ error = ""
         /\ \A j \in DOMAIN data : IsFinite(data[j].tangent.k)

\* C13: the animated path of a render is built from exactly the first
\* index + 1 samples, index = floor(len * progress), and is empty when
\* index <= 0.
C13_AnimatedPathIsPrefix ==
    isAnimating
      => LET index == EndIndex(Len(points), animationProgress)
         IN  /\ ~FunctionPath.raised
             /\ FunctionPath.path =
                   IF index <= 0 THEN <<>> ELSE SubSeq(points, 1, index + 1)

\* C20: in every animation state the animated createPath reads only the
\* indices 0..len-1 of the point arrays it is given.
C20_PathIndicesInBounds ==
    isAnimating
      => /\ PathIndices(Len(points), TRUE, animationProgress)
               \subseteq 0..(Len(points) - 1)
         /\ PathIndices(Len(derivativePoints), TRUE, animationProgress)
               \subseteq 0..(Len(derivativePoints) - 1)

\* C14: in every render, for the grid points x of the effective range,
\* mapping x to a pixel column with mapToSVG and the pixel back with the
\* pointer conversion of handleMouseMove gives x again, within the width
\* one pixel covers.
C14_PixelRoundTrip ==
    LET range == getEffectiveViewRange(Cur)
    IN  \A i \in 0..NumPoints :
            LET x == GridX(range, NumPoints, i)
                back == PointerToX(mapToSVG(x, Cur), Cur)
            IN  /\ ~back.nan
                /\ Abs(back.v - x) <= PixelWorth(Cur)

C16_FailureLeavesEmptySet ==
    (~graphPending /\ GraphPassFails(Props))
      => /\ error = GraphError
         /\ data = <<>>

\* C16 as amended: a pass of generateData that fails sets the error
\* message, ends loading and leaves data exactly as the last completed
\* pass left it; zoomLevel, panOffset and the expressions are unchanged.
C16_FailureKeepsLastData ==
    [][(graphPending /\ ~graphPending' /\ GraphPassFails(Props))
          => /\ error' = GraphError
             /\ ~loading'
             /\ data' = data
             /\ zoomLevel' = zoomLevel
             /\ panOffset' = panOffset
             /\ customFunction' = customFunction
             /\ func' = func
             /\ derivative' = derivative]_vars

\* C16 witness: a pass has failed after an earlier pass stored rows
C16_Witness ==
    /\ ~graphPending
    /\ GraphPassFails(Props)
    /\ error = GraphError
    /\ ~loading
    /\ data # <<>>

\* C17: while the animation is running, a frame tick takes
\* animationProgress to the wrap of progress + elapsed * speed / 5000,
\* elapsed the time since the previous tick (0 on the first tick after a
\* start) and speed the animationSpeed of the current render.
C17_TickUsesCurrentSpeed ==
    [][(now' # now /\ isAnimating)
          => animationProgress' =
                AdvanceProgress(animationProgress,
                                IF animationRef = 0 THEN 0
                                ELSE now' - animationRef,
                                animationSpeed)]_vars

\* C18: a step changes zoomLevel only if it is a wheel, zoom-button or
\* reset event, and panOffset only if it is a reset or a mouse move during
\* a drag; a drag starts only with a mousedown on the graph; a hover
\* during a drag sets nothing.
C18_ZoomPanOnlyByInteraction ==
    [][/\ zoomLevel' # zoomLevel => ZoomEvent
       /\ panOffset' # panOffset => (HandleResetView \/ DragEvent)
       /\ (isDragging' /\ ~isDragging)
             => \E pos \in MousePositions : HandleMouseDown(pos)
       /\ (isDragging /\ highlightPoint' # highlightPoint) => FALSE]_vars

\* C18 witness: zoomed and panned, the drag over, a point highlighted by a
\* hover, the animation running and a sampling pass done
C18_Witness ==
    /\ zoomLevel # ZoomUnit
    /\ panOffset.x # 0
    /\ ~isDragging
    /\ highlighted
    /\ isAnimating
    /\ animationProgress > 0
    /\ viewRange # MountClosure.viewRange
    /\ Quiescent

\* C19: at most one requestAnimationFrame callback of animate is waiting
\* for the next frame at any time.
C19_AtMostOneChain == Len(frames) <= 1

\* C21: a mouse move of dx pixels during a drag changes panOffset.x by
\* -dx / xScale, xScale = (svgWidth - 80) / (effective range width) taken
\* from the svgWidth, viewRange, zoomLevel and panOffset of the current
\* render.
C21_DragUsesCurrentScale ==
    [][\A pos \in MousePositions :
          HandlePan(pos)
             => panOffset'.x
                   = panOffset.x - PanDeltaX(pos.x - lastMousePos.x, Cur)]_vars

\* df is the derivative of f: the pair is an example of the table, or df
\* is what the symbolic differentiation of f gives
IsDerivativeOf(df, f) ==
    \/ \E tab \in DOMAIN examples : \E j \in 1..Len(examples[tab]) :
          examples[tab][j].f = f /\ examples[tab][j].df = df
    \/ SymbolicDerivative(f) # "throw" /\ df = SymbolicDerivative(f)

\* C22: in every render of CalcVisualizer a derivative expression passed
\* to DerivativeGraph is the derivative of the func prop passed with it,
\* never the derivative computed for an earlier function text.
C22_GraphDerivativeMatchesFunction ==
    displayDerivative # "" => IsDerivativeOf(displayDerivative, displayFunction)

\* C23: tangentPoint of CalcVisualizer lies within [domain[0], domain[1]]
\* in every reachable state.
C23_TangentPointWithinDomain ==
    calcDomain[1] <= calcTangentPoint /\ calcTangentPoint <= calcDomain[2]

\* C24: selecting an example sets the domain to the example's default
\* domain, or [-10, 10] when it has none, and tangentPoint to the midpoint
\* of that domain, the value the tab effect gives.
C24_ExampleSelectionCentersTangent ==
    [][\A idx \in 0..2 :
          SelectExample(idx)
             => /\ calcDomain'
                      = DefaultDomainOr(examples[calcActiveTab][idx + 1])
                /\ calcTangentPoint' = Midpoint(calcDomain')]_vars

====
